---- MODULE Spec2Model ----
(***************************************************************************)
(* StereoAlign (src/App.tsx, src/services/imageService.ts,                 *)
(* src/components/InteractiveCanvas.tsx): the alignment pipeline, its      *)
(* point bookkeeping and the geometry of each stage.                       *)
(*                                                                         *)
(* Numbers.  Image widths and heights are whole pixels.  Point coordinates *)
(* are real-valued in the program; here they are fixed-point, counted in   *)
(* 1/Unit of a pixel, so x = 3 with Unit = 2 is 1.5 px.  An angle is kept  *)
(* exactly, as the reduced integer direction <<c, s>> whose atan2(s, c) it *)
(* is; a scale ratio is kept as the fraction num/den.  Arithmetic is that  *)
(* of the reals: the rounding of IEEE doubles is not modelled.             *)
(*                                                                         *)
(* Objects.  A canvas is a record with its identity `id`, its width and    *)
(* height, and `px`, the list of operations that produced its pixels.  The *)
(* identity is the place that created the canvas (document.createElement   *)
(* in processFile for a side, in rotateImage, ...): the program state      *)
(* never refers to two canvases of one place at once, because a stage is   *)
(* applied once between two resets and a decoded file replaces both the    *)
(* source and the working canvas of its side.  Two references with one id  *)
(* are one object.  Null is the canvas with id "".                         *)
(*                                                                         *)
(* Handlers.  Every React event handler runs to completion and its state   *)
(* updates are rendered before the next event is delivered, so one handler *)
(* is one action.  A handler is callable whenever the view that binds it   *)
(* is rendered (the `step` guards); the `disabled` attributes of the       *)
(* buttons repeat the handlers' own early returns and are not modelled, so *)
(* the early returns are exercised.  `called` names the handler that ran   *)
(* last and `alertMsg` the alert() it raised or the exception that left    *)
(* it, if any.                                                             *)
(***************************************************************************)
EXTENDS Integers, Sequences, FiniteSets, TLC

VARIABLES
    step,          \* App.tsx:9
    srcL, srcR,    \* App.tsx:12-13
    canvasL, canvasR,   \* App.tsx:16-17
    pointsL, pointsR,   \* App.tsx:20-21
    pointHistory,  \* App.tsx:24
    options,       \* App.tsx:27-32
    resultCanvas,  \* App.tsx:35
    loading,       \* per side, the processFile calls suspended at `await loadImage(url)`
    view,          \* InteractiveCanvas.tsx:28-35, the state of the left view
    called,        \* the handler that ran last
    alertMsg       \* the alert() raised or the exception thrown by that handler, "" if none

vars == <<step, srcL, srcR, canvasL, canvasR, pointsL, pointsR, pointHistory,
          options, resultCanvas, loading, view, called, alertMsg>>

----------------------------------------------------------------------------
(* Bounds of the model *)

\* sub-pixel resolution of point coordinates: 1 px = Unit units
Unit == 2
\* processFile calls that may be in flight together
MaxLoading == 1

----------------------------------------------------------------------------
(* Arithmetic helpers *)

Abs(n) == IF n < 0 THEN -n ELSE n
Min(a, b) == IF a < b THEN a ELSE b
Max(a, b) == IF a > b THEN a ELSE b
\* Math.floor(n / d) and Math.ceil(n / d) for d > 0
FloorDiv(n, d) == n \div d
CeilDiv(n, d) == -((-n) \div d)

RECURSIVE Gcd(_, _)
Gcd(a, b) == IF b = 0 THEN a ELSE Gcd(b, a % b)

\* Math.ceil(a / sqrt(n)) for a >= 0, n >= 1
CeilDivRoot(a, n) ==
    CHOOSE k \in 0..a : /\ k * k * n >= a * a
                        /\ (k = 0 \/ (k - 1) * (k - 1) * n < a * a)

----------------------------------------------------------------------------
(* types.ts *)

AppStep == {"UPLOAD", "ROTATE", "SCALE", "CROP", "RESULT"}
Side == {"left", "right"}
Point(x, y) == [x |-> x, y |-> y]

Null == [id |-> "", width |-> 0, height |-> 0, px |-> <<>>]
Canvas(id, w, h, px) == [id |-> id, width |-> w, height |-> h, px |-> px]
Op(name, a, b) == [op |-> name, a |-> a, b |-> b]

\* the state an InteractiveCanvas is constructed with; `event` is the position
\* of the last mouse event that changed it, `pressed` tells that a mouse-down
\* has been handled and no mouse-up since, `container` is the bounding
\* rectangle of the container and `zooms` counts the handleZoom calls
InitialView ==
    [scale |-> <<1, 1>>, offset |-> Point(0, 0), isDragging |-> FALSE,
     dragStart |-> Point(0, 0), clickStart |-> Point(0, 0), event |-> Point(0, 0),
     pressed |-> FALSE, container |-> [width |-> 0, height |-> 0], zooms |-> 0]

----------------------------------------------------------------------------
(* services/imageService.ts *)

\* cloneCanvas: a new canvas of floor(width) x floor(height) with the source drawn at 0,0
cloneCanvas(source, width, height, id) ==
    Canvas(id, width, height, source.px)

\* the exact angle of the direction (dx, dy): atan2(0, 0) is 0
Direction(dx, dy) ==
    IF dx = 0 /\ dy = 0 THEN <<1, 0>>
    ELSE LET g == Gcd(Abs(dx), Abs(dy)) IN <<dx \div g, dy \div g>>

\* a calculateAngle that loses the sign of dx, as atan(dy / |dx|) would
calculateAngle_Folded(p1, p2) == Direction(Abs(p2.x - p1.x), p2.y - p1.y)

\* calculateAngle: atan2(p2.y - p1.y, p2.x - p1.x) in degrees
calculateAngle(p1, p2) == Direction(p2.x - p1.x, p2.y - p1.y)

\* a difference taken the other way round: b - a
AngleMinus_Reversed(a, b) ==
    Direction(a[1] * b[1] + a[2] * b[2], a[1] * b[2] - a[2] * b[1])

\* a - b for two angles, up to a whole turn
AngleMinus(a, b) ==
    Direction(a[1] * b[1] + a[2] * b[2], a[2] * b[1] - a[1] * b[2])

\* Math.abs(angleDegrees) < 0.01: 1 / tan(0.01 deg) = 5729.58
BelowAngleEps(angle) ==
    angle[1] > 0 /\ Abs(angle[2]) * 572958 < 100 * angle[1]

\* a rotateImage that hands its input back when there is nothing to turn
rotateImage_AliasSmall(source, angle, id) ==
    IF BelowAngleEps(angle)
    THEN source
    ELSE Canvas(id, source.height, source.width,
                Append(source.px, Op("rotate", angle[1], angle[2])))

\* rotateImage
rotateImage(source, angle, id) ==
    IF BelowAngleEps(angle)
    THEN cloneCanvas(source, source.width, source.height, id)
    ELSE LET n == angle[1] * angle[1] + angle[2] * angle[2]
             absCos == Abs(angle[1])     \* times sqrt(n)
             absSin == Abs(angle[2])     \* times sqrt(n)
             newWidth == CeilDivRoot(source.width * absCos + source.height * absSin, n)
             newHeight == CeilDivRoot(source.width * absSin + source.height * absCos, n)
         IN  Canvas(id, newWidth, newHeight,
                    Append(source.px, Op("rotate", angle[1], angle[2])))

\* a scaleImage that scales by den/num
scaleImage_Inverse(source, num, den, id) ==
    Canvas(id, CeilDiv(source.width * den, Max(num, 1)),
           CeilDiv(source.height * den, Max(num, 1)),
           Append(source.px, Op("scale", den, num)))

\* scaleImage, the scale given as the fraction num/den (num >= 0, den > 0)
scaleImage(source, num, den, id) ==
    IF Abs(num - den) * 1000 < den
    THEN cloneCanvas(source, source.width, source.height, id)
    ELSE LET newWidth == CeilDiv(source.width * num, den)
             newHeight == CeilDiv(source.height * num, den)
             g == Gcd(num, den)
         IN  Canvas(id, newWidth, newHeight,
                    Append(source.px, Op("scale", num \div g, den \div g)))

\* cropImagesAligned: the four crop distances, in pixels
\* a cropLeft that measures the left anchor only
cropLeft_LeftOnly(pL, pR) == FloorDiv(pL.x, Unit)

cropLeft(pL, pR) == FloorDiv(Min(pL.x, pR.x), Unit)
\* a cropRight that measures the left image only
cropRight_LeftOnly(left, right, pL, pR) ==
    FloorDiv(left.width * Unit - pL.x, Unit)

cropRight(left, right, pL, pR) ==
    FloorDiv(Min(left.width * Unit - pL.x, right.width * Unit - pR.x), Unit)
cropTop(pL, pR) == FloorDiv(Min(pL.y, pR.y), Unit)
cropBottom(left, right, pL, pR) ==
    FloorDiv(Min(left.height * Unit - pL.y, right.height * Unit - pR.y), Unit)
finalWidth(left, right, pL, pR) == cropLeft(pL, pR) + cropRight(left, right, pL, pR)
finalHeight(left, right, pL, pR) == cropTop(pL, pR) + cropBottom(left, right, pL, pR)

\* createCropped: the origin of the source rectangle, in pixels
srcX(anchor, pL, pR) == FloorDiv(anchor.x - cropLeft(pL, pR) * Unit, Unit)
srcY(anchor, pL, pR) == FloorDiv(anchor.y - cropTop(pL, pR) * Unit, Unit)

createCropped(source, anchor, left, right, pL, pR, id) ==
    Canvas(id, finalWidth(left, right, pL, pR), finalHeight(left, right, pL, pR),
           Append(source.px, Op("crop", srcX(anchor, pL, pR), srcY(anchor, pL, pR))))

\* cropImagesAligned; equalZoom is accepted and not read
cropImagesAligned(left, right, pL, pR, equalZoom, id) ==
    [left  |-> createCropped(left, pL, left, right, pL, pR, id \o ".left"),
     right |-> createCropped(right, pR, left, right, pL, pR, id \o ".right")]

\* ctx.drawImage(image, ...) throws an InvalidStateError for a canvas `image`
\* that has no pixels (HTML Standard, "check the usability of the image
\* argument": a canvas whose width or height is zero)
drawImageThrows(image) == image.width = 0 \/ image.height = 0

\* a merge that draws the left source at the top
mergeYL_Top(left, right) == 0

\* mergeSideBySide: where each source is drawn
mergeYL(left, right) == FloorDiv(Max(left.height, right.height) - left.height, 2)
mergeYR(left, right) == FloorDiv(Max(left.height, right.height) - right.height, 2)
mergeXR(left, right) == left.width

mergeSideBySide(left, right, id) ==
    Canvas(id, left.width + right.width, Max(left.height, right.height),
           <<Op("fill", 0, 0)>>
           \o left.px \o <<Op("drawLeft", 0, mergeYL(left, right))>>
           \o right.px \o <<Op("drawRight", mergeXR(left, right), mergeYR(left, right))>>)

----------------------------------------------------------------------------
(* Inputs *)

\* the files the operator may pick: the decoded image's naturalWidth x naturalHeight
Files == { [file |-> 1, width |-> 2, height |-> 6],
           [file |-> 2, width |-> 6, height |-> 2] }

\* the image coordinates a click may map to: the first lies inside both files,
\* the second only inside file 1 and the third only inside file 2
ClickPoints == { Point(1, 1), Point(Unit, 6 * Unit), Point(6 * Unit, Unit + 1) }

----------------------------------------------------------------------------
(* App.tsx: state after construction *)

Init ==
    /\ step = "UPLOAD"
    /\ srcL = Null /\ srcR = Null
    /\ canvasL = Null /\ canvasR = Null
    /\ pointsL = <<>> /\ pointsR = <<>>
    /\ pointHistory = <<>>
    /\ options = [assumeEqualTilt |-> FALSE, assumeEqualZoom |-> FALSE,
                  assumeEqualFraming |-> FALSE, rotateLeftImage |-> FALSE]
    /\ resultCanvas = Null
    /\ loading = [side \in Side |-> 0]
    /\ view = InitialView
    /\ called = "none"
    /\ alertMsg = ""

IsNull(canvas) == canvas.id = ""
Front(s) == SubSeq(s, 1, Len(s) - 1)
Last(s) == s[Len(s)]

\* the handler `name` ran and raised no alert
Ran(name) == called' = name /\ alertMsg' = ""

\* the handler `name` was left by an exception of a drawImage call
Threw(name) == called' = name /\ alertMsg' = "InvalidStateError"

----------------------------------------------------------------------------
(* App.tsx: uploads *)

\* files picked and not yet decoded
InFlight == loading["left"] + loading["right"]

\* processFile up to `await loadImage(url)`; bound to the upload boxes of the UPLOAD view
ProcessFile(side) ==
    /\ step = "UPLOAD"
    /\ InFlight < MaxLoading
    /\ loading' = [loading EXCEPT ![side] = @ + 1]
    /\ Ran("processFile")
    /\ UNCHANGED <<view, step, srcL, srcR, canvasL, canvasR, pointsL, pointsR,
                   pointHistory, options, resultCanvas>>

\* processFile after the await: the file decoded to img, whatever the stage is by now
ProcessFileResume(side, img) ==
    /\ loading[side] > 0
    /\ LET canvas == Canvas("processFile." \o side, img.width, img.height, <<Op("file", img.file, 0)>>)
       IN  IF side = "left"
           THEN srcL' = canvas /\ canvasL' = canvas /\ UNCHANGED <<srcR, canvasR>>
           ELSE srcR' = canvas /\ canvasR' = canvas /\ UNCHANGED <<srcL, canvasL>>
    /\ loading' = [loading EXCEPT ![side] = @ - 1]
    /\ Ran("processFile.resume")
    /\ UNCHANGED <<view, step, pointsL, pointsR, pointHistory, options, resultCanvas>>

\* loadImage rejected (img.onerror): processFile throws at the await
ProcessFileReject(side) ==
    /\ loading[side] > 0
    /\ loading' = [loading EXCEPT ![side] = @ - 1]
    /\ Ran("processFile.reject")
    /\ UNCHANGED <<view, step, srcL, srcR, canvasL, canvasR, pointsL, pointsR,
                   pointHistory, options, resultCanvas>>

----------------------------------------------------------------------------
(* App.tsx: options *)

\* the three checkboxes of the UPLOAD view
SetOption(field, checked) ==
    /\ step = "UPLOAD"
    /\ options' = [options EXCEPT ![field] = checked]
    /\ Ran("setOptions")
    /\ UNCHANGED <<view, step, srcL, srcR, canvasL, canvasR, pointsL, pointsR,
                   pointHistory, resultCanvas, loading>>

\* a select that writes the tilt option as well
SetRotateLeftImage_Tilt(checked) ==
    /\ step = "ROTATE"
    /\ options' = [options EXCEPT !.rotateLeftImage = checked, !.assumeEqualTilt = checked]
    /\ Ran("setOptions.rotateLeftImage")
    /\ UNCHANGED <<view, step, srcL, srcR, canvasL, canvasR, pointsL, pointsR,
                   pointHistory, resultCanvas, loading>>

\* the select of the ROTATE view
SetRotateLeftImage(checked) ==
    /\ step = "ROTATE"
    /\ options' = [options EXCEPT !.rotateLeftImage = checked]
    /\ Ran("setOptions.rotateLeftImage")
    /\ UNCHANGED <<view, step, srcL, srcR, canvasL, canvasR, pointsL, pointsR,
                   pointHistory, resultCanvas, loading>>

----------------------------------------------------------------------------
(* App.tsx: the point collector *)

\* a handleAddPoint that tags every point as a left one
handleAddPoint_TagLeft(side, p) ==
    /\ IF side = "left"
       THEN pointsL' = Append(pointsL, p) /\ UNCHANGED pointsR
       ELSE pointsR' = Append(pointsR, p) /\ UNCHANGED pointsL
    /\ pointHistory' = Append(pointHistory, "left")

handleAddPoint(side, p) ==
    /\ IF side = "left"
       THEN pointsL' = Append(pointsL, p) /\ UNCHANGED pointsR
       ELSE pointsR' = Append(pointsR, p) /\ UNCHANGED pointsL
    /\ pointHistory' = Append(pointHistory, side)

clearPoints ==
    /\ pointsL' = <<>>
    /\ pointsR' = <<>>
    /\ pointHistory' = <<>>

\* a popPoint that pops the other side
popPoint_OtherSide(lastSide) ==
    IF lastSide = "left"
    THEN pointsR' = Front(pointsR) /\ UNCHANGED pointsL
    ELSE pointsL' = Front(pointsL) /\ UNCHANGED pointsR

\* undoLastPoint: the pop of the side the last tag names
popPoint(lastSide) ==
    IF lastSide = "left"
    THEN pointsL' = Front(pointsL) /\ UNCHANGED pointsR
    ELSE pointsR' = Front(pointsR) /\ UNCHANGED pointsL

\* the Undo button of the ROTATE, SCALE and CROP views
UndoLastPoint ==
    /\ step \in {"ROTATE", "SCALE", "CROP"}
    /\ IF Len(pointHistory) = 0
       THEN UNCHANGED <<pointsL, pointsR, pointHistory>>
       ELSE LET lastSide == Last(pointHistory)
                newHistory == Front(pointHistory)
            IN  /\ pointHistory' = newHistory
                /\ popPoint(lastSide)
    /\ Ran("undoLastPoint")
    /\ UNCHANGED <<view, step, srcL, srcR, canvasL, canvasR, options, resultCanvas,
                   loading>>

----------------------------------------------------------------------------
(* InteractiveCanvas.tsx, as App.tsx instantiates it *)

\* a maxPoints that is 2 in every view
maxPoints_AlwaysTwo(s) == 2

\* the maxPoints prop of the two canvases of a view
maxPoints(s) == IF s = "CROP" THEN 1 ELSE 2

\* a bounds check that forgets the lower bounds
InBounds_UpperOnly(p, image) ==
    /\ p.x <= image.width * Unit
    /\ p.y <= image.height * Unit

\* the bounds check of handleMouseUp
InBounds(p, image) ==
    /\ p.x >= 0 /\ p.x <= image.width * Unit
    /\ p.y >= 0 /\ p.y <= image.height * Unit

\* handleMouseUp for a click (less than 5 px from the mouse-down) that the
\* viewport maps to the image coordinates p
HandleMouseUp(side, p) ==
    /\ step \in {"ROTATE", "SCALE", "CROP"}
    /\ LET image == IF side = "left" THEN canvasL ELSE canvasR
           points == IF side = "left" THEN pointsL ELSE pointsR
       IN  IF ~IsNull(image) /\ Len(points) < maxPoints(step) /\ InBounds(p, image)
           THEN handleAddPoint(side, p) /\ Ran("handleAddPoint")
           ELSE UNCHANGED <<pointsL, pointsR, pointHistory>> /\ Ran("handleMouseUp")
    /\ UNCHANGED <<view, step, srcL, srcR, canvasL, canvasR, options, resultCanvas,
                   loading>>

----------------------------------------------------------------------------
(* App.tsx: the pipeline controller *)

\* a guard that refuses only when both images are missing
MissingSource_Both == IsNull(srcL) /\ IsNull(srcR)

\* `if (!srcL || !srcR) return;`
MissingSource == IsNull(srcL) \/ IsNull(srcR)

\* a startProcessing that does not read assumeEqualZoom
StepAfterStart_NoZoom(opts) ==
    IF opts.assumeEqualTilt THEN "SCALE" ELSE "ROTATE"

\* a startProcessing that does not read assumeEqualTilt
StepAfterStart_NoTilt(opts) ==
    IF opts.assumeEqualZoom THEN "CROP" ELSE "ROTATE"

\* the stage startProcessing moves to when assumeEqualFraming is off
StepAfterStart(opts) ==
    IF opts.assumeEqualTilt
    THEN IF opts.assumeEqualZoom THEN "CROP" ELSE "SCALE"
    ELSE "ROTATE"

\* a merge at the start that reads the working pair
merged_Working(sL, sR, cL, cR) == mergeSideBySide(cL, cR, "mergeSideBySide")

\* `merged` of startProcessing, of the source pair sL, sR and the working pair
\* cL, cR of the state it runs in
merged(sL, sR, cL, cR) == mergeSideBySide(sL, sR, "mergeSideBySide")

\* the Start button of the UPLOAD view
StartProcessing ==
    /\ step = "UPLOAD"
    /\ IF MissingSource
       THEN UNCHANGED <<step, resultCanvas, pointsL, pointsR, pointHistory>>
       ELSE IF options.assumeEqualFraming
       THEN /\ resultCanvas' = merged(srcL, srcR, canvasL, canvasR)
            /\ step' = "RESULT"
            /\ UNCHANGED <<pointsL, pointsR, pointHistory>>
       ELSE /\ step' = StepAfterStart(options)
            /\ clearPoints
            /\ UNCHANGED resultCanvas
    /\ Ran("startProcessing")
    /\ UNCHANGED <<view, srcL, srcR, canvasL, canvasR, options, loading>>

\* an early return that clears the points first
RefuseApply_Clears ==
    /\ clearPoints
    /\ UNCHANGED <<step, canvasL, canvasR, resultCanvas>>

\* the early `return;` of an apply handler
RefuseApply ==
    UNCHANGED <<step, canvasL, canvasR, pointsL, pointsR, pointHistory,
                resultCanvas>>

\* the guards of applyRotation and applyScaling, and of applyCropping
TwoPointsEach ==
    ~IsNull(canvasL) /\ ~IsNull(canvasR) /\ Len(pointsL) >= 2 /\ Len(pointsR) >= 2
OnePointEach ==
    ~IsNull(canvasL) /\ ~IsNull(canvasR) /\ Len(pointsL) >= 1 /\ Len(pointsR) >= 1

\* an applyRotation that always goes on to SCALE
StepAfterRotation_AlwaysScale(opts) == "SCALE"

\* an applyRotation that goes back to the upload
StepAfterRotation_Back(opts) == "UPLOAD"

\* the stage applyRotation moves to
StepAfterRotation(opts) == IF opts.assumeEqualZoom THEN "CROP" ELSE "SCALE"

\* the Apply Rotation button of the ROTATE view
ApplyRotation ==
    /\ step = "ROTATE"
    /\ IF ~TwoPointsEach
       THEN RefuseApply
       ELSE LET angleL == calculateAngle(pointsL[1], pointsL[2])
                angleR == calculateAngle(pointsR[1], pointsR[2])
                diff == AngleMinus(angleL, angleR)
                rotation == AngleMinus(angleR, angleL)
                nextL == IF options.rotateLeftImage
                         THEN rotateImage(canvasL, rotation, "rotateImage")
                         ELSE canvasL
                nextR == IF options.rotateLeftImage
                         THEN canvasR
                         ELSE rotateImage(canvasR, diff, "rotateImage")
            IN  /\ canvasL' = nextL
                /\ canvasR' = nextR
                /\ clearPoints
                /\ step' = StepAfterRotation(options)
                /\ UNCHANGED resultCanvas
    /\ Ran("applyRotation")
    /\ UNCHANGED <<view, srcL, srcR, options, loading>>

\* a check that forgets the left distance
ZeroDistance_RightOnly(hL, hR) == hR = 0

\* `if (hL === 0 || hR === 0)`
ZeroDistance(hL, hR) == hL = 0 \/ hR = 0

\* the Apply Scaling button of the SCALE view
ApplyScaling ==
    /\ step = "SCALE"
    /\ IF ~TwoPointsEach
       THEN RefuseApply /\ Ran("applyScaling")
       ELSE LET hL == Abs(pointsL[1].y - pointsL[2].y)
                hR == Abs(pointsR[1].y - pointsR[2].y)
            IN  IF ZeroDistance(hL, hR)
                THEN /\ RefuseApply
                     /\ called' = "applyScaling"
                     /\ alertMsg' = "Vertical distance cannot be zero!"
                ELSE /\ canvasL' = canvasL
                     /\ canvasR' = scaleImage(canvasR, hL, hR, "scaleImage")
                     /\ clearPoints
                     /\ step' = "CROP"
                     /\ UNCHANGED resultCanvas
                     /\ Ran("applyScaling")
    /\ UNCHANGED <<view, srcL, srcR, options, loading>>

\* an applyCropping that stores the result and stays in CROP
ApplyCropping_KeepsStage ==
    /\ step = "CROP"
    /\ IF ~OnePointEach
       THEN RefuseApply
       ELSE LET cropped == cropImagesAligned(canvasL, canvasR, pointsL[1], pointsR[1],
                                             options.assumeEqualZoom, "cropImagesAligned")
            IN  /\ canvasL' = cropped.left
                /\ canvasR' = cropped.right
                /\ resultCanvas' = mergeSideBySide(cropped.left, cropped.right, "mergeSideBySide")
                /\ UNCHANGED <<step, pointsL, pointsR, pointHistory>>
    /\ Ran("applyCropping")
    /\ UNCHANGED <<view, srcL, srcR, options, loading>>

\* the Apply Crop & Merge button of the CROP view.  createCropped draws its
\* source and mergeSideBySide draws the two crops: the first throws before any
\* state is set, the second after setCanvasL(left) and setCanvasR(right),
\* which React applies although the handler is left by the exception.
ApplyCropping ==
    /\ step = "CROP"
    /\ IF ~OnePointEach
       THEN RefuseApply /\ Ran("applyCropping")
       ELSE LET cropped == cropImagesAligned(canvasL, canvasR, pointsL[1], pointsR[1],
                                             options.assumeEqualZoom, "cropImagesAligned")
            IN  IF drawImageThrows(canvasL) \/ drawImageThrows(canvasR)
                THEN RefuseApply /\ Threw("applyCropping")
                ELSE IF drawImageThrows(cropped.left) \/ drawImageThrows(cropped.right)
                THEN /\ canvasL' = cropped.left
                     /\ canvasR' = cropped.right
                     /\ UNCHANGED <<step, resultCanvas, pointsL, pointsR, pointHistory>>
                     /\ Threw("applyCropping")
                ELSE /\ canvasL' = cropped.left
                     /\ canvasR' = cropped.right
                     /\ resultCanvas' = mergeSideBySide(cropped.left, cropped.right, "mergeSideBySide")
                     /\ step' = "RESULT"
                     /\ UNCHANGED <<pointsL, pointsR, pointHistory>>
                     /\ Ran("applyCropping")
    /\ UNCHANGED <<view, srcL, srcR, options, loading>>

\* the Download button of the RESULT view
DownloadResult ==
    /\ step = "RESULT"
    /\ Ran("downloadResult")
    /\ UNCHANGED <<view, step, srcL, srcR, canvasL, canvasR, pointsL, pointsR,
                   pointHistory, options, resultCanvas, loading>>

\* a resetAll that keeps the result canvas
ResetAll_KeepsResult ==
    /\ step # "UPLOAD"
    /\ step' = "UPLOAD"
    /\ srcL' = Null /\ srcR' = Null
    /\ canvasL' = Null /\ canvasR' = Null
    /\ clearPoints
    /\ Ran("resetAll")
    /\ UNCHANGED <<view, options, loading, resultCanvas>>

\* the Reset button of the header (every view but UPLOAD) and Start Over of RESULT
ResetAll ==
    /\ step # "UPLOAD"
    /\ step' = "UPLOAD"
    /\ srcL' = Null /\ srcR' = Null
    /\ canvasL' = Null /\ canvasR' = Null
    /\ clearPoints
    /\ resultCanvas' = Null
    /\ Ran("resetAll")
    /\ UNCHANGED <<view, options, loading>>

----------------------------------------------------------------------------
(* The program *)

Next ==
    \/ \E side \in Side : ProcessFile(side)
    \/ \E side \in Side, img \in Files : ProcessFileResume(side, img)
    \/ \E side \in Side : ProcessFileReject(side)
    \/ \E field \in {"assumeEqualTilt", "assumeEqualZoom", "assumeEqualFraming"},
          checked \in BOOLEAN : SetOption(field, checked)
    \/ \E checked \in BOOLEAN : SetRotateLeftImage(checked)
    \/ StartProcessing
    \/ \E side \in Side, p \in ClickPoints : HandleMouseUp(side, p)
    \/ UndoLastPoint
    \/ ApplyRotation
    \/ ApplyScaling
    \/ ApplyCropping
    \/ DownloadResult
    \/ ResetAll

Spec == Init /\ [][Next]_vars

\* the step of the apply handler `name` of the stage `stage` that passes its
\* guards, is not left by an exception and moves the stage; ApplyRotation,
\* ApplyScaling and ApplyCropping are enabled throughout their stage and take
\* this step whenever the conditions on the unprimed variables hold
ApplyMoves(name, stage) ==
    /\ step = stage
    /\ Len(pointsL) >= maxPoints(stage) /\ Len(pointsR) >= maxPoints(stage)
    /\ stage = "SCALE" => ~ZeroDistance(Abs(pointsL[1].y - pointsL[2].y),
                                        Abs(pointsR[1].y - pointsR[2].y))
    /\ stage = "CROP"
         => LET cropped == cropImagesAligned(canvasL, canvasR, pointsL[1], pointsR[1],
                                             options.assumeEqualZoom, "cropImagesAligned")
            IN  /\ ~drawImageThrows(canvasL) /\ ~drawImageThrows(canvasR)
                /\ ~drawImageThrows(cropped.left) /\ ~drawImageThrows(cropped.right)
    /\ called' = name
    /\ step' \in {"SCALE", "CROP", "RESULT"} \ {step}

\* what an apply that moves the stage changes in every case
progress == <<step, called>>

\* the state after two loads have completed and the options have been set
LiveInit ==
    /\ step = "UPLOAD"
    /\ \E imgL \in Files, imgR \in Files :
         /\ srcL = Canvas("processFile.left", imgL.width, imgL.height,
                          <<Op("file", imgL.file, 0)>>)
         /\ srcR = Canvas("processFile.right", imgR.width, imgR.height,
                          <<Op("file", imgR.file, 0)>>)
    /\ canvasL = srcL /\ canvasR = srcR
    /\ pointsL = <<>> /\ pointsR = <<>>
    /\ pointHistory = <<>>
    /\ \E tilt \in BOOLEAN, zoom \in BOOLEAN, framing \in BOOLEAN :
         options = [assumeEqualTilt |-> tilt, assumeEqualZoom |-> zoom,
                    assumeEqualFraming |-> framing, rotateLeftImage |-> FALSE]
    /\ resultCanvas = Null
    /\ loading = [side \in Side |-> 0]
    /\ view = InitialView
    /\ called = "none"
    /\ alertMsg = ""

\* the handlers of a run on the pair loaded
LiveNext ==
    \/ \E checked \in BOOLEAN : SetRotateLeftImage(checked)
    \/ StartProcessing
    \/ \E side \in Side, p \in ClickPoints : HandleMouseUp(side, p)
    \/ UndoLastPoint
    \/ ApplyRotation
    \/ ApplyScaling
    \/ ApplyCropping
    \/ DownloadResult
    \/ ResetAll

\* a run on the pair loaded with an operator who invokes the apply of a stage
\* when, again and again, it can move the stage
LiveSpec ==
    /\ LiveInit /\ [][LiveNext]_vars
    /\ SF_progress(ApplyMoves("applyRotation", "ROTATE"))
    /\ SF_progress(ApplyMoves("applyScaling", "SCALE"))
    /\ SF_progress(ApplyMoves("applyCropping", "CROP"))

----------------------------------------------------------------------------
(* Properties *)

\* the part of the state the pipeline owns: everything but `called`, `alertMsg`
\* and the loads in flight
Nothing == UNCHANGED <<step, srcL, srcR, canvasL, canvasR, pointsL, pointsR,
                       pointHistory, options, resultCanvas>>
PointsEmpty == pointsL = <<>> /\ pointsR = <<>> /\ pointHistory = <<>>
Transforms == {"rotate", "scale", "crop"}
IsTransform(o) == o.op \in Transforms
IsFile(o) == o.op = "file"

\* C1: startProcessing from UPLOAD with both images loaded moves to RESULT if
\* assumeEqualFraming (the result composed from the two sources as loaded),
\* else to CROP if assumeEqualTilt and assumeEqualZoom, else to SCALE if
\* assumeEqualTilt, else to ROTATE.
C1_StartTable ==
    [][ (called' = "startProcessing" /\ step = "UPLOAD"
            /\ ~IsNull(srcL) /\ ~IsNull(srcR))
        => /\ step' = IF options.assumeEqualFraming THEN "RESULT"
                      ELSE IF options.assumeEqualTilt /\ options.assumeEqualZoom THEN "CROP"
                      ELSE IF options.assumeEqualTilt THEN "SCALE"
                      ELSE "ROTATE"
           /\ options.assumeEqualFraming
                => /\ ~IsNull(resultCanvas')
                   /\ resultCanvas'.width = srcL.width + srcR.width
                   /\ resultCanvas'.height = Max(srcL.height, srcR.height)
                   /\ SelectSeq(resultCanvas'.px, IsTransform) = <<>>
                   /\ SelectSeq(resultCanvas'.px, IsFile) = srcL.px \o srcR.px ]_vars

C1_Witness ==
    /\ called = "startProcessing" /\ step = "CROP"
    /\ options.assumeEqualTilt /\ options.assumeEqualZoom /\ ~options.assumeEqualFraming

\* C2: a successful apply advances the stage from ROTATE to CROP if
\* assumeEqualZoom and else to SCALE, from SCALE to CROP, and from CROP to RESULT
\* with a merged result stored; no apply changes the stage in another way.
ApplySucceeds ==
    \/ /\ called' = "applyRotation" /\ step = "ROTATE"
       /\ Len(pointsL) >= 2 /\ Len(pointsR) >= 2
    \/ /\ called' = "applyScaling" /\ step = "SCALE"
       /\ Len(pointsL) >= 2 /\ Len(pointsR) >= 2
       /\ pointsL[1].y # pointsL[2].y /\ pointsR[1].y # pointsR[2].y
    \/ /\ called' = "applyCropping" /\ step = "CROP"
       /\ Len(pointsL) >= 1 /\ Len(pointsR) >= 1
       /\ alertMsg' = ""

C2_ApplyAdvances ==
    [][ /\ ApplySucceeds
          => /\ step = "ROTATE" => step' = IF options.assumeEqualZoom THEN "CROP" ELSE "SCALE"
             /\ step = "SCALE" => step' = "CROP"
             /\ step = "CROP" => /\ step' = "RESULT"
                                 /\ ~IsNull(resultCanvas')
                                 /\ resultCanvas'.width = canvasL'.width + canvasR'.width
                                 /\ resultCanvas'.px[Len(resultCanvas'.px)].op = "drawRight"
        /\ (called' \in {"applyRotation", "applyScaling", "applyCropping"} /\ step' # step)
          => ApplySucceeds ]_vars

C2_Witness ==
    /\ called = "applyRotation" /\ step = "CROP" /\ options.assumeEqualZoom

\* C3: every successful apply stores the new working pair, empties both point
\* sets and the history and advances the stage, so after any stage change the
\* point sets and the history are empty; an apply that does not succeed does
\* none of them.
C3_AtomicTransition ==
    [][ /\ step' # step => PointsEmpty'
        /\ ApplySucceeds => step' # step /\ PointsEmpty'
        /\ (called' \in {"applyRotation", "applyScaling", "applyCropping"} /\ ~ApplySucceeds)
             => UNCHANGED <<step, canvasL, canvasR, pointsL, pointsR, pointHistory>> ]_vars

\* C4: the history is as long as the two point sets together, and holds as many
\* 'left' (resp. 'right') tags as pointsL (resp. pointsR) holds points.
IsLeftTag(t) == t = "left"
IsRightTag(t) == t = "right"
C4_HistoryMatchesPoints ==
    /\ Len(pointHistory) = Len(pointsL) + Len(pointsR)
    /\ Len(SelectSeq(pointHistory, IsLeftTag)) = Len(pointsL)
    /\ Len(SelectSeq(pointHistory, IsRightTag)) = Len(pointsR)

C4_Witness ==
    /\ called = "undoLastPoint"
    /\ Len(pointsL) = 2 /\ Len(pointsR) = 1 /\ Len(pointHistory) = 3

\* C5: a point is added at the end of its side and of the history, and undoLast
\* removes the last point of the side the last tag names, leaving every other
\* point of both sides as it is; with an empty history it changes nothing.
C5_UndoRemovesLast ==
    [][ /\ called' = "handleAddPoint"
          => \E p \in ClickPoints :
               \/ /\ pointsL' = Append(pointsL, p) /\ pointsR' = pointsR
                  /\ pointHistory' = Append(pointHistory, "left")
               \/ /\ pointsR' = Append(pointsR, p) /\ pointsL' = pointsL
                  /\ pointHistory' = Append(pointHistory, "right")
        /\ called' = "undoLastPoint"
          => IF pointHistory = <<>>
             THEN Nothing
             ELSE /\ pointHistory' = Front(pointHistory)
                  /\ Last(pointHistory) = "left"
                       => pointsL' = Front(pointsL) /\ pointsR' = pointsR
                  /\ Last(pointHistory) = "right"
                       => pointsR' = Front(pointsR) /\ pointsL' = pointsL ]_vars

\* after add left, add right, add left and one undo: the first left point and
\* the single right point are left
C5_Witness ==
    /\ called = "undoLastPoint"
    /\ pointHistory = <<"left", "right">>
    /\ Len(pointsL) = 1 /\ Len(pointsR) = 1
    /\ pointsL[1] # pointsR[1]

\* C6: no side ever holds more points than the stage allows: 2 in ROTATE and
\* in SCALE, 1 in CROP.
C6_MaxPointsPerSide ==
    /\ step \in {"ROTATE", "SCALE"} => Len(pointsL) <= 2 /\ Len(pointsR) <= 2
    /\ step = "CROP" => Len(pointsL) <= 1 /\ Len(pointsR) <= 1

\* a click in CROP on a side that already holds its one point
C6_Witness ==
    /\ step = "CROP" /\ called = "handleMouseUp"
    /\ Len(pointsL) = 1 /\ Len(pointsR) = 1
    /\ \A p \in ClickPoints : InBounds(p, canvasL)

\* C7: an apply called with fewer than the minimum points on a side (2 and 2
\* in ROTATE and SCALE, 1 and 1 in CROP) changes nothing.
C7_ShortApplyIsNoOp ==
    [][ ( \/ /\ called' \in {"applyRotation", "applyScaling"}
             /\ (Len(pointsL) < 2 \/ Len(pointsR) < 2)
          \/ /\ called' = "applyCropping"
             /\ (Len(pointsL) < 1 \/ Len(pointsR) < 1) )
        => Nothing ]_vars

C7_Witness ==
    /\ called = "applyRotation" /\ step = "ROTATE"
    /\ Len(pointsL) = 2 /\ Len(pointsR) = 1

\* C8: applyScaling with two points a side of which the left two or the right
\* two have the same y raises an alert and changes nothing.
C8_ZeroDistanceRefused ==
    [][ ( /\ called' = "applyScaling" /\ step = "SCALE"
          /\ Len(pointsL) >= 2 /\ Len(pointsR) >= 2
          /\ (pointsL[1].y = pointsL[2].y \/ pointsR[1].y = pointsR[2].y) )
        => /\ alertMsg' # ""
           /\ step' = "SCALE"
           /\ Nothing ]_vars

\* the alert, with a zero distance on the left only
C8_Witness ==
    /\ called = "applyScaling" /\ alertMsg # "" /\ step = "SCALE"
    /\ Len(pointsL) = 2 /\ Len(pointsR) = 2
    /\ pointsL[1].y = pointsL[2].y /\ pointsR[1].y # pointsR[2].y

\* C9: startProcessing with an image missing changes nothing, and outside
\* UPLOAD both sources and both working canvases are present.
AllPresent ==
    ~IsNull(srcL) /\ ~IsNull(srcR) /\ ~IsNull(canvasL) /\ ~IsNull(canvasR)

C9_NoStartWithoutSources ==
    [][ /\ (called' = "startProcessing" /\ (IsNull(srcL) \/ IsNull(srcR))) => Nothing
        /\ step' # "UPLOAD" => AllPresent' ]_vars

C9_Witness ==
    /\ called = "startProcessing" /\ step = "UPLOAD"
    /\ ~IsNull(srcL) /\ IsNull(srcR)

\* C10: out of RESULT the stage changes by resetAll only, and resetAll leaves
\* UPLOAD with no source, working or result canvas and no points.
C10_ResultUntilReset ==
    [][ /\ (step = "RESULT" /\ step' # "RESULT") => called' = "resetAll"
        /\ called' = "resetAll"
             => /\ step' = "UPLOAD"
                /\ IsNull(srcL') /\ IsNull(srcR')
                /\ IsNull(canvasL') /\ IsNull(canvasR')
                /\ IsNull(resultCanvas')
                /\ PointsEmpty' ]_vars

\* UPLOAD just after a reset, every canvas discarded
C10_Witness ==
    /\ called = "resetAll" /\ step = "UPLOAD"
    /\ IsNull(resultCanvas) /\ IsNull(srcL)

\* C11: startProcessing takes no effect while a load started by processFile is
\* in flight, and no load completes (replacing a source and a working canvas)
\* while the stage is ROTATE, SCALE, CROP or RESULT.
C11_LoadsCompleteBeforePipeline ==
    [][ /\ (called' = "startProcessing" /\ InFlight > 0) => Nothing
        /\ called' = "processFile.resume" => step = "UPLOAD" ]_vars

----------------------------------------------------------------------------
(* imageService.ts: cropImagesAligned and mergeSideBySide on their own.
   The working pair holds the two input canvases and then the two outputs,
   as in applyCropping; pointsL and pointsR hold one anchor each. *)

\* anchors are drawn from the grid 0..MaxAnchor (in units) and from the worked examples
MaxAnchor == 3

\* width and height of the input canvases
GeomSizes == { <<1, 1>>, <<2, 3>>, <<3, 2>>, <<100, 80>>, <<100, 100>>, <<120, 100>> }

GeomAnchors ==
    { Point(x, y) : x \in 0..MaxAnchor, y \in 0..MaxAnchor }
        \cup { Point(40 * Unit, 50 * Unit), Point(50 * Unit, 50 * Unit) }

\* a canvas handed to the service by its caller
InputCanvas(side, size) ==
    Canvas("input." \o side, size[1], size[2], <<Op("file", size[1], size[2])>>)

CropInit ==
    /\ step = "CROP"
    /\ srcL = Null /\ srcR = Null
    /\ \E sL \in GeomSizes, sR \in GeomSizes :
         /\ canvasL = InputCanvas("left", sL)
         /\ canvasR = InputCanvas("right", sR)
    /\ \E pL \in GeomAnchors, pR \in GeomAnchors :
         /\ InBounds(pL, canvasL) /\ InBounds(pR, canvasR)
         /\ pointsL = <<pL>> /\ pointsR = <<pR>>
    /\ pointHistory = <<"left", "right">>
    /\ options = [assumeEqualTilt |-> TRUE, assumeEqualZoom |-> TRUE,
                  assumeEqualFraming |-> FALSE, rotateLeftImage |-> FALSE]
    /\ resultCanvas = Null
    /\ loading = [side \in Side |-> 0]
    /\ view = InitialView
    /\ called = "none"
    /\ alertMsg = ""

\* the call of cropImagesAligned on the two inputs
CropImagesAligned ==
    /\ canvasL.id = "input.left"
    /\ LET cropped == cropImagesAligned(canvasL, canvasR, pointsL[1], pointsR[1],
                                        options.assumeEqualZoom, "cropImagesAligned")
       IN  canvasL' = cropped.left /\ canvasR' = cropped.right
    /\ Ran("cropImagesAligned")
    /\ UNCHANGED <<view, step, srcL, srcR, pointsL, pointsR, pointHistory, options,
                   resultCanvas, loading>>

\* the call of mergeSideBySide on the pair as it is, cropped or not; on a
\* canvas without pixels the call throws and returns nothing
MergeSideBySide ==
    /\ IsNull(resultCanvas)
    /\ ~drawImageThrows(canvasL) /\ ~drawImageThrows(canvasR)
    /\ resultCanvas' = mergeSideBySide(canvasL, canvasR, "mergeSideBySide")
    /\ Ran("mergeSideBySide")
    /\ UNCHANGED <<view, step, srcL, srcR, canvasL, canvasR, pointsL, pointsR,
                   pointHistory, options, loading>>

CropNext == CropImagesAligned \/ MergeSideBySide

CropSpec == CropInit /\ [][CropNext]_vars

\* C12: cropImagesAligned returns two canvases of the same width and height,
\* cropLeft + cropRight by cropTop + cropBottom, each crop value the floor of
\* the smaller of the two anchors' distances to that edge.
C12_CropSameSize ==
    [][ called' = "cropImagesAligned"
        => LET pL == pointsL[1]
               pR == pointsR[1]
               left == FloorDiv(Min(pL.x, pR.x), Unit)
               right == FloorDiv(Min(canvasL.width * Unit - pL.x,
                                     canvasR.width * Unit - pR.x), Unit)
               top == FloorDiv(Min(pL.y, pR.y), Unit)
               bottom == FloorDiv(Min(canvasL.height * Unit - pL.y,
                                      canvasR.height * Unit - pR.y), Unit)
           IN  /\ canvasL'.width = left + right /\ canvasR'.width = left + right
               /\ canvasL'.height = top + bottom /\ canvasR'.height = top + bottom ]_vars

\* 100x100 with anchor (40,50) and 120x100 with anchor (50,50) give 100x100 twice
C12_Witness ==
    /\ called = "cropImagesAligned"
    /\ canvasL.px[1] = Op("file", 100, 100) /\ canvasR.px[1] = Op("file", 120, 100)
    /\ pointsL = <<Point(40 * Unit, 50 * Unit)>> /\ pointsR = <<Point(50 * Unit, 50 * Unit)>>
    /\ canvasL.width = 100 /\ canvasL.height = 100
    /\ canvasR.width = 100 /\ canvasR.height = 100

\* C13: for every pair of in-bounds anchors, whole or fractional, each side's
\* anchor lies at (cropLeft, cropTop) of that side's output: the anchor minus
\* the origin of the source rectangle is (cropLeft, cropTop) on both sides.
C13_AnchorAtCropOrigin ==
    [][ called' = "cropImagesAligned"
        => LET pL == pointsL[1]
               pR == pointsR[1]
               originL == canvasL'.px[Len(canvasL'.px)]
               originR == canvasR'.px[Len(canvasR'.px)]
           IN  /\ originL.op = "crop" /\ originR.op = "crop"
               /\ pL.x - originL.a * Unit = cropLeft(pL, pR) * Unit
               /\ pL.y - originL.b * Unit = cropTop(pL, pR) * Unit
               /\ pR.x - originR.a * Unit = cropLeft(pL, pR) * Unit
               /\ pR.y - originR.b * Unit = cropTop(pL, pR) * Unit ]_vars

----------------------------------------------------------------------------
(* Properties of the transforms as the pipeline applies them *)

\* the direction that leads from direction `from` to direction `to`
Turn(from, to) ==
    Direction(to[1] * from[1] + to[2] * from[2], to[2] * from[1] - to[1] * from[2])

\* `out` is a canvas made by rotateImage from `source` turned by `angle`
RotatedBy(source, out, angle) ==
    /\ out.id = "rotateImage"
    /\ IF BelowAngleEps(angle)
       THEN out.px = source.px /\ out.width = source.width /\ out.height = source.height
       ELSE out.px = Append(source.px, Op("rotate", angle[1], angle[2]))

\* C14: a successful applyRotation replaces one working canvas: with
\* rotateLeftImage the left one, rotated by the angle of the right pair minus
\* the angle of the left pair, the right one passing through as it is;
\* otherwise the right one, rotated by the angle of the left pair minus the
\* angle of the right pair, the left one passing through as it is.
C14_RotatesOneSide ==
    [][ (called' = "applyRotation" /\ Len(pointsL) >= 2 /\ Len(pointsR) >= 2)
        => LET angleL == Direction(pointsL[2].x - pointsL[1].x, pointsL[2].y - pointsL[1].y)
               angleR == Direction(pointsR[2].x - pointsR[1].x, pointsR[2].y - pointsR[1].y)
           IN  IF options.rotateLeftImage
               THEN canvasR' = canvasR /\ RotatedBy(canvasL, canvasL', Turn(angleL, angleR))
               ELSE canvasL' = canvasL /\ RotatedBy(canvasR, canvasR', Turn(angleR, angleL)) ]_vars

\* the left canvas turned, by an angle that is not a multiple of a half turn
C14_Witness ==
    /\ called = "applyRotation" /\ options.rotateLeftImage
    /\ canvasL.id = "rotateImage" /\ canvasR.id = "processFile.right"
    /\ Len(canvasL.px) = 2 /\ canvasL.px[2].op = "rotate"
    /\ canvasL.px[2].a # 0 /\ canvasL.px[2].b # 0

\* C15: a successful applyScaling scales the right canvas and never the left:
\* with hL and hR the vertical distances of the left and the right pair, both
\* non-zero, the new right canvas is ceil(w * hL / hR) by ceil(h * hL / hR), or
\* w by h when hL / hR is within 0.001 of 1, and the left canvas is unchanged.
C15_ScalesRightOnly ==
    [][ ( /\ called' = "applyScaling" /\ step = "SCALE"
          /\ Len(pointsL) >= 2 /\ Len(pointsR) >= 2
          /\ pointsL[1].y # pointsL[2].y /\ pointsR[1].y # pointsR[2].y )
        => LET hL == Abs(pointsL[1].y - pointsL[2].y)
               hR == Abs(pointsR[1].y - pointsR[2].y)
               near == Abs(hL - hR) * 1000 < hR
           IN  /\ canvasL' = canvasL
               /\ canvasR'.id = "scaleImage"
               /\ canvasR'.width = IF near THEN canvasR.width
                                   ELSE CeilDiv(canvasR.width * hL, hR)
               /\ canvasR'.height = IF near THEN canvasR.height
                                    ELSE CeilDiv(canvasR.height * hL, hR) ]_vars

\* the right canvas scaled by a ratio other than 1, the left one kept
C15_Witness ==
    /\ called = "applyScaling" /\ step = "CROP"
    /\ canvasR.id = "scaleImage" /\ canvasR.px[Len(canvasR.px)].op = "scale"
    /\ canvasL.id = "processFile.left"

\* C16: mergeSideBySide returns a canvas of leftWidth + rightWidth by
\* max(leftHeight, rightHeight), the left source drawn at x = 0,
\* y = floor((outHeight - leftHeight) / 2) and the right source at
\* x = leftWidth, y = floor((outHeight - rightHeight) / 2).
C16_MergeLayout ==
    [][ called' = "mergeSideBySide"
        => LET out == resultCanvas'
               outHeight == IF canvasL.height > canvasR.height
                            THEN canvasL.height ELSE canvasR.height
               IsDraw(o) == o.op \in {"drawLeft", "drawRight"}
           IN  /\ out.width = canvasL.width + canvasR.width
               /\ out.height = outHeight
               /\ SelectSeq(out.px, IsDraw)
                    = << Op("drawLeft", 0, (outHeight - canvasL.height) \div 2),
                         Op("drawRight", canvasL.width, (outHeight - canvasR.height) \div 2) >> ]_vars

\* 100x80 and 100x100 give 200x100, the left source 10 px down and the right at 0
C16_Witness ==
    /\ called = "mergeSideBySide"
    /\ canvasL.id = "input.left" /\ canvasL.width = 100 /\ canvasL.height = 80
    /\ canvasR.id = "input.right" /\ canvasR.width = 100 /\ canvasR.height = 100
    /\ resultCanvas.width = 200 /\ resultCanvas.height = 100
    /\ resultCanvas.px[3] = Op("drawLeft", 0, 10)
    /\ resultCanvas.px[5] = Op("drawRight", 100, 0)

\* C17: after every stage transition (start, applyRotation, applyScaling,
\* applyCropping) each working canvas is an instance other than the working
\* canvas of that side before the transition and other than the retained
\* sources.
C17_WorkingPairReplaced ==
    [][ (step' # step /\ step' # "UPLOAD")
        => /\ canvasL'.id # canvasL.id /\ canvasR'.id # canvasR.id
           /\ canvasL'.id \notin {srcL'.id, srcR'.id}
           /\ canvasR'.id \notin {srcL'.id, srcR'.id} ]_vars

----------------------------------------------------------------------------
(* imageService.ts: the four transforms on their own. rotateImage and
   scaleImage are called on one canvas of the pair and their output is kept
   in resultCanvas, next to the input. *)

\* angles, as directions: 0, 0.0095 and -0.0095 degrees (below the 0.01
\* degrees of rotateImage), 45, 90, 180 and -53.13 degrees
GeomAngles == { <<1, 0>>, <<6000, 1>>, <<6000, -1>>, <<1, 1>>, <<0, 1>>, <<-1, 0>>, <<3, -4>> }

\* scales, as fractions: 1, 1000/1001 (within 0.001 of 1), 999/1000 (not
\* within), 1/2 and 2
GeomRatios == { <<1, 1>>, <<1000, 1001>>, <<999, 1000>>, <<1, 2>>, <<2, 1>> }

RotateImage(side, angle) ==
    /\ IsNull(resultCanvas)
    /\ LET source == IF side = "left" THEN canvasL ELSE canvasR
       IN  /\ ~drawImageThrows(source)
           /\ resultCanvas' = rotateImage(source, angle, "rotateImage")
    /\ Ran("rotateImage")
    /\ UNCHANGED <<view, step, srcL, srcR, canvasL, canvasR, pointsL, pointsR,
                   pointHistory, options, loading>>

ScaleImage(side, ratio) ==
    /\ IsNull(resultCanvas)
    /\ LET source == IF side = "left" THEN canvasL ELSE canvasR
       IN  /\ ~drawImageThrows(source)
           /\ resultCanvas' = scaleImage(source, ratio[1], ratio[2], "scaleImage")
    /\ Ran("scaleImage")
    /\ UNCHANGED <<view, step, srcL, srcR, canvasL, canvasR, pointsL, pointsR,
                   pointHistory, options, loading>>

GeomNext ==
    \/ CropImagesAligned
    \/ MergeSideBySide
    \/ \E side \in Side, angle \in GeomAngles : RotateImage(side, angle)
    \/ \E side \in Side, ratio \in GeomRatios : ScaleImage(side, ratio)

GeomSpec == CropInit /\ [][GeomNext]_vars

\* C18: every transform returns a canvas that is none of its inputs and leaves
\* its inputs as they are; rotateImage below 0.01 degrees and scaleImage within
\* 0.001 of 1 return a canvas other than the input, of the input's width and
\* height.
C18_TransformsReturnNew ==
    [][ /\ called' \in {"rotateImage", "scaleImage", "mergeSideBySide"}
          => /\ resultCanvas'.id \notin {"", canvasL.id, canvasR.id}
             /\ UNCHANGED <<canvasL, canvasR>>
        /\ called' = "cropImagesAligned"
          => /\ {canvasL'.id, canvasR'.id} \cap {"", canvasL.id, canvasR.id} = {}
             /\ canvasL'.id # canvasR'.id
        /\ (called' \in {"rotateImage", "scaleImage"} /\ resultCanvas'.px \in {canvasL.px, canvasR.px})
          => \E source \in {canvasL, canvasR} :
               /\ resultCanvas'.width = source.width
               /\ resultCanvas'.height = source.height
               /\ resultCanvas'.px = source.px ]_vars

\* rotateImage by less than 0.01 degrees: a copy of a 2x3 input, next to the pair
C18_Witness ==
    /\ called = "rotateImage"
    /\ resultCanvas.px = <<Op("file", 2, 3)>>
    /\ resultCanvas.width = 2 /\ resultCanvas.height = 3
    /\ resultCanvas.id = "rotateImage"
    /\ canvasL.id = "input.left" /\ canvasR.id = "input.right"

----------------------------------------------------------------------------
(* InteractiveCanvas.tsx: the mouse handlers of the left view, on a viewport
   of a given scale.  Screen positions are whole pixels relative to the
   canvas' bounding rectangle. *)

\* `dist < 5`: a mouse-up closer than this to the mouse-down is a click
ClickThreshold == 5
\* the pan is followed while |offset.x| and |offset.y| stay within MaxPan
MaxPan == 3

\* positions of the mouse events
ScreenPoints == { Point(0, 0), Point(1, 2), Point(4, 4) }

\* the scales of the viewport, as fractions: 1, Unit and 1/2
ViewScales == { <<1, 1>>, <<Unit, 1>>, <<1, 2>> }

\* imgX = (clickX - offset.x) / scale, imgY = (clickY - offset.y) / scale, in units
ImagePoint(e, v) ==
    Point(((e.x - v.offset.x) * v.scale[2] * Unit) \div v.scale[1],
          ((e.y - v.offset.y) * v.scale[2] * Unit) \div v.scale[1])

ViewInit ==
    /\ step \in {"ROTATE", "CROP"}
    /\ \E img \in Files :
         /\ srcL = Canvas("processFile.left", img.width, img.height, <<Op("file", img.file, 0)>>)
         /\ srcR = Canvas("processFile.right", img.width, img.height, <<Op("file", img.file, 0)>>)
    /\ canvasL = srcL /\ canvasR = srcR
    /\ pointsL = <<>> /\ pointsR = <<>>
    /\ pointHistory = <<>>
    /\ options = [assumeEqualTilt |-> step = "CROP", assumeEqualZoom |-> step = "CROP",
                  assumeEqualFraming |-> FALSE, rotateLeftImage |-> FALSE]
    /\ resultCanvas = Null
    /\ loading = [side \in Side |-> 0]
    /\ \E scale \in ViewScales : view = [InitialView EXCEPT !.scale = scale]
    /\ called = "none"
    /\ alertMsg = ""

handleMouseDown(e) ==
    /\ view' = [view EXCEPT !.isDragging = TRUE, !.dragStart = e,
                            !.clickStart = e, !.event = e, !.pressed = TRUE]
    /\ Ran("handleMouseDown")
    /\ UNCHANGED <<step, srcL, srcR, canvasL, canvasR, pointsL, pointsR,
                   pointHistory, options, resultCanvas, loading>>

handleMouseMove(e) ==
    /\ LET dx == e.x - view.dragStart.x
           dy == e.y - view.dragStart.y
           moved == Point(view.offset.x + dx, view.offset.y + dy)
       IN  IF view.isDragging
           THEN /\ Abs(moved.x) <= MaxPan /\ Abs(moved.y) <= MaxPan
                /\ view' = [view EXCEPT !.offset = moved, !.dragStart = e, !.event = e]
           ELSE UNCHANGED view
    /\ Ran("handleMouseMove")
    /\ UNCHANGED <<step, srcL, srcR, canvasL, canvasR, pointsL, pointsR,
                   pointHistory, options, resultCanvas, loading>>

handleMouseUp(e) ==
    /\ LET totalDx == e.x - view.clickStart.x
           totalDy == e.y - view.clickStart.y
           image == canvasL
           points == pointsL
           img == ImagePoint(e, view)
       IN  IF /\ totalDx * totalDx + totalDy * totalDy < ClickThreshold * ClickThreshold
              /\ ~IsNull(image)
              /\ Len(points) < maxPoints(step)
              /\ InBounds(img, image)
           THEN handleAddPoint("left", img) /\ Ran("handleAddPoint")
           ELSE UNCHANGED <<pointsL, pointsR, pointHistory>> /\ Ran("handleMouseUp")
    /\ view' = [view EXCEPT !.isDragging = FALSE, !.event = e, !.pressed = FALSE]
    /\ UNCHANGED <<step, srcL, srcR, canvasL, canvasR, options, resultCanvas,
                   loading>>

onMouseLeave ==
    /\ view' = [view EXCEPT !.isDragging = FALSE]
    /\ Ran("onMouseLeave")
    /\ UNCHANGED <<step, srcL, srcR, canvasL, canvasR, pointsL, pointsR,
                   pointHistory, options, resultCanvas, loading>>

ViewNext ==
    \/ \E e \in ScreenPoints : handleMouseDown(e)
    \/ \E e \in ScreenPoints : handleMouseMove(e)
    \/ \E e \in ScreenPoints : handleMouseUp(e)
    \/ onMouseLeave

ViewSpec == ViewInit /\ [][ViewNext]_vars

----------------------------------------------------------------------------
(* InteractiveCanvas.tsx: fitToContainer and handleZoom.  Here the scale and
   the two components of the offset are fractions <<n, d>> in lowest terms,
   d > 0. *)

\* handleZoom calls followed from the constructed view
MaxZoom == 3

Frac(n, d) ==
    LET g == Gcd(Abs(n), Abs(d))
    IN  IF d < 0 THEN <<(-n) \div g, (-d) \div g>> ELSE <<n \div g, d \div g>>
FracMul(a, b) ==
    LET f == Frac(a[1], b[2])
        g == Frac(b[1], a[2])
    IN  Frac(f[1] * g[1], f[2] * g[2])
FracDiv(a, b) == FracMul(a, Frac(b[2], b[1]))
FracSub(a, b) ==
    LET g == Gcd(a[2], b[2])
    IN  Frac(a[1] * (b[2] \div g) - b[1] * (a[2] \div g), a[2] * (b[2] \div g))
FracLess(a, b) == a[1] * b[2] < b[1] * a[2]
FracMin(a, b) == IF FracLess(b, a) THEN b ELSE a
FracMax(a, b) == IF FracLess(a, b) THEN b ELSE a

\* width and height of the images shown
ZoomImages == { <<20, 20>>, <<2000, 2000>>, <<1000, 500>> }
\* width and height of the container; one of no width, as before layout
ZoomContainers == { <<1000, 1000>>, <<20, 20>>, <<0, 600>> }
\* offsets a pan of the constructed view leads to
ZoomOffsets == { Point(<<0, 1>>, <<0, 1>>), Point(<<3, 1>>, <<-2, 1>>) }

\* a fit that takes the margin off the current scale
fitToContainer_FromCurrent(v, image) ==
    LET width == v.container.width
        height == v.container.height
        startScale == FracMul(v.scale, <<19, 20>>)
        displayW == FracMul(<<image.width, 1>>, startScale)
        displayH == FracMul(<<image.height, 1>>, startScale)
    IN  IF IsNull(image) \/ width = 0 \/ height = 0
        THEN v
        ELSE [v EXCEPT !.scale = startScale,
                       !.offset = Point(FracDiv(FracSub(<<width, 1>>, displayW), <<2, 1>>),
                                        FracDiv(FracSub(<<height, 1>>, displayH), <<2, 1>>))]

\* fitToContainer: the view it leaves
fitToContainer(v, image) ==
    LET width == v.container.width
        height == v.container.height
        scaleW == Frac(width, image.width)
        scaleH == Frac(height, image.height)
        startScale == FracMul(FracMin(scaleW, scaleH), <<19, 20>>)
        displayW == FracMul(<<image.width, 1>>, startScale)
        displayH == FracMul(<<image.height, 1>>, startScale)
    IN  IF IsNull(image) \/ width = 0 \/ height = 0
        THEN v
        ELSE [v EXCEPT !.scale = startScale,
                       !.offset = Point(FracDiv(FracSub(<<width, 1>>, displayW), <<2, 1>>),
                                        FracDiv(FracSub(<<height, 1>>, displayH), <<2, 1>>))]

\* the Fit View button
HandleReset ==
    /\ view' = fitToContainer(view, canvasL)
    /\ Ran("fitToContainer")
    /\ UNCHANGED <<step, srcL, srcR, canvasL, canvasR, pointsL, pointsR,
                   pointHistory, options, resultCanvas, loading>>

\* a clamp that lets the scale fall below 0.01
Clamp_NoFloor(scale) == FracMin(<<50, 1>>, scale)

\* Math.max(0.01, Math.min(50, scale))
Clamp(scale) == FracMax(<<1, 100>>, FracMin(<<50, 1>>, scale))

\* handleZoom: the view it leaves
handleZoom(v, direction) ==
    LET factor == IF direction = "in" THEN <<6, 5>> ELSE <<4, 5>>
        newScale == Clamp(FracMul(v.scale, factor))
        centerX == Frac(v.container.width, 2)
        centerY == Frac(v.container.height, 2)
        imagePointX == FracDiv(FracSub(centerX, v.offset.x), v.scale)
        imagePointY == FracDiv(FracSub(centerY, v.offset.y), v.scale)
        newOffsetX == FracSub(centerX, FracMul(imagePointX, newScale))
        newOffsetY == FracSub(centerY, FracMul(imagePointY, newScale))
    IN  [v EXCEPT !.scale = newScale, !.offset = Point(newOffsetX, newOffsetY)]

\* the Zoom In and Zoom Out buttons
HandleZoom(direction) ==
    /\ view.zooms < MaxZoom
    /\ view' = [handleZoom(view, direction) EXCEPT !.zooms = view.zooms + 1]
    /\ called' = "handleZoom." \o direction
    /\ alertMsg' = ""
    /\ UNCHANGED <<step, srcL, srcR, canvasL, canvasR, pointsL, pointsR,
                   pointHistory, options, resultCanvas, loading>>

ZoomInit ==
    /\ step = "ROTATE"
    /\ \E size \in ZoomImages :
         /\ srcL = Canvas("processFile.left", size[1], size[2], <<Op("file", 1, 0)>>)
         /\ srcR = Canvas("processFile.right", size[1], size[2], <<Op("file", 2, 0)>>)
    /\ canvasL = srcL /\ canvasR = srcR
    /\ pointsL = <<>> /\ pointsR = <<>>
    /\ pointHistory = <<>>
    /\ options = [assumeEqualTilt |-> FALSE, assumeEqualZoom |-> FALSE,
                  assumeEqualFraming |-> FALSE, rotateLeftImage |-> FALSE]
    /\ resultCanvas = Null
    /\ loading = [side \in Side |-> 0]
    /\ \E size \in ZoomContainers, offset \in ZoomOffsets :
         view = [InitialView EXCEPT !.container = [width |-> size[1], height |-> size[2]],
                                    !.offset = offset]
    /\ called = "none"
    /\ alertMsg = ""

ZoomNext ==
    \/ HandleReset
    \/ \E direction \in {"in", "out"} : HandleZoom(direction)

ZoomSpec == ZoomInit /\ [][ZoomNext]_vars

----------------------------------------------------------------------------
(* Properties of the options and of the clicks *)

\* C19: assumeEqualTilt, assumeEqualZoom and assumeEqualFraming do not change
\* in a step taken outside UPLOAD, resetAll included, and rotateLeftImage
\* changes in ROTATE only.
C19_OptionsFrozen ==
    [][ /\ step # "UPLOAD"
          => /\ options'.assumeEqualTilt = options.assumeEqualTilt
             /\ options'.assumeEqualZoom = options.assumeEqualZoom
             /\ options'.assumeEqualFraming = options.assumeEqualFraming
        /\ options'.rotateLeftImage # options.rotateLeftImage => step = "ROTATE" ]_vars

\* a reset of a pipeline that ran with two options set and the left image as
\* the one to rotate
C19_Witness ==
    /\ called = "resetAll" /\ step = "UPLOAD"
    /\ options.assumeEqualZoom /\ ~options.assumeEqualTilt /\ options.rotateLeftImage

\* C20: a click whose image coordinates ((x - offset.x) / scale,
\* (y - offset.y) / scale) lie outside [0, width] x [0, height] of the image
\* shown adds no point and changes nothing of the pipeline; every point added
\* is the image position of the click and lies within the image shown.
C20_OutOfBoundsDropped ==
    [][ called' \in {"handleMouseUp", "handleAddPoint"}
        => LET e == view'.event
               n == view.scale[1]
               d == view.scale[2]
               imgXd == (e.x - view.offset.x) * d      \* imgX * n
               imgYd == (e.y - view.offset.y) * d      \* imgY * n
               inside == /\ imgXd >= 0 /\ imgXd <= canvasL.width * n
                         /\ imgYd >= 0 /\ imgYd <= canvasL.height * n
           IN  /\ ~inside => Nothing
               /\ pointsL' # pointsL
                    => /\ inside
                       /\ Len(pointsL') = Len(pointsL) + 1
                       /\ Last(pointsL').x * n = imgXd * Unit
                       /\ Last(pointsL').y * n = imgYd * Unit ]_vars

\* a click left of the image after a pan to the right: dropped
C20_Witness ==
    /\ called = "handleMouseUp"
    /\ view.event = view.clickStart
    /\ view.event.x < view.offset.x
    /\ Len(pointsL) < maxPoints(step)

----------------------------------------------------------------------------
(* Properties of the viewport *)

\* C21: a point is added only by a mouse-up that ends a mouse-down/mouse-up
\* pair less than 5 screen pixels apart, and a gesture that pans the viewport
\* adds no point.
C21_ClickOrPan ==
    [][ pointsL' # pointsL
        => LET dx == view'.event.x - view.clickStart.x
               dy == view'.event.y - view.clickStart.y
           IN  /\ called' = "handleAddPoint"
               /\ view.pressed
               /\ dx * dx + dy * dy < 5 * 5
               /\ view.dragStart = view.clickStart ]_vars

\* C21, its second part alone: after a mouse-down, a gesture that pans adds no point
C21_PanAddsNoPoint ==
    [][ (pointsL' # pointsL /\ view.pressed) => view.dragStart = view.clickStart ]_vars

----------------------------------------------------------------------------
(* Properties of calculateAngle on the pairs a point set holds *)

\* the directions a and b are half a turn apart: a = b + 180 degrees modulo 360
HalfTurnApart(a, b) == a[1] = -b[1] /\ a[2] = -b[2]

\* the point sets that hold a pair
HeldPairs == { pts \in {pointsL, pointsR} : Len(pts) = 2 }

\* C22: for every pair p1, p2 a point set holds, p1 = p2 included,
\* calculateAngle(p1, p2) is calculateAngle(p2, p1) + 180 degrees modulo 360.
C22_AngleAntisymmetric ==
    \A pts \in HeldPairs :
        HalfTurnApart(calculateAngle(pts[1], pts[2]), calculateAngle(pts[2], pts[1]))

\* C22, amended: the same for every pair of two different points; for twice
\* the same point calculateAngle gives 0 in both orders.
C22_AngleAntisymmetricDistinct ==
    \A pts \in HeldPairs :
        IF pts[1] # pts[2]
        THEN HalfTurnApart(calculateAngle(pts[1], pts[2]), calculateAngle(pts[2], pts[1]))
        ELSE calculateAngle(pts[1], pts[2]) = <<1, 0>>

\* a pair of two different points, held in ROTATE
C22_Witness ==
    /\ step = "ROTATE" /\ Len(pointsL) = 2
    /\ pointsL[1] # pointsL[2]
    /\ pointsL[1].x > pointsL[2].x /\ pointsL[1].y < pointsL[2].y

\* C23: fitToContainer run again on the view it left, with the same image and
\* the same container, leaves the same scale and offset, whatever the zoom and
\* pan were before the first run.
C23_FitIdempotent ==
    called = "fitToContainer" => fitToContainer(view, canvasL) = view

\* a fit of a view that was zoomed before, in a container that has a size
C23_Witness ==
    /\ called = "fitToContainer" /\ view.zooms > 0
    /\ view.container.width > 0
    /\ view.scale = <<19, 2000>>

\* the image coordinate a view shows at the centre of its container
CentreImagePoint(v) ==
    Point(FracDiv(FracSub(Frac(v.container.width, 2), v.offset.x), v.scale),
          FracDiv(FracSub(Frac(v.container.height, 2), v.offset.y), v.scale))

\* the scale a zoom step asks for, before the clamp
Requested(v, name) ==
    FracMul(v.scale, IF name = "handleZoom.in" THEN <<6, 5>> ELSE <<4, 5>>)

\* C25: every zoom step, by 1.2 in and by 0.8 out with the new scale clamped
\* to [0.01, 50], keeps the image coordinate at the centre of the container
\* fixed on both axes, also when the clamp changes the requested scale, and
\* leaves a scale in [0.01, 50].
C25_ZoomKeepsCentre ==
    [][ view'.zooms # view.zooms
        => LET requested == Requested(view, called')
           IN  /\ called' \in {"handleZoom.in", "handleZoom.out"}
               /\ CentreImagePoint(view') = CentreImagePoint(view)
               /\ ~ FracLess(view'.scale, <<1, 100>>)
               /\ ~ FracLess(<<50, 1>>, view'.scale)
               /\ view'.scale = IF FracLess(<<50, 1>>, requested) THEN <<50, 1>>
                                ELSE IF FracLess(requested, <<1, 100>>) THEN <<1, 100>>
                                ELSE requested ]_vars

\* a zoom out of a fitted view that the clamp stopped at 0.01, the centre of
\* the image staying at the centre of the container
C25_Witness ==
    /\ called = "handleZoom.out"
    /\ view.scale = <<1, 100>>
    /\ view.zooms = 1
    /\ CentreImagePoint(view) = Point(<<1000, 1>>, <<1000, 1>>)

----------------------------------------------------------------------------
(* Properties of the source pair *)

\* the canvases a load can leave
Loadable ==
    { Canvas("processFile.left", img.width, img.height, <<Op("file", img.file, 0)>>) :
        img \in Files }

\* srcL and srcR change only by a load that completes or by resetAll
SourcesFramed ==
    (srcL' # srcL \/ srcR' # srcR) => called' \in {"processFile.resume", "resetAll"}

\* the result applyCropping stores is computed from the working pair and the points
CropResultFromWorkingPair ==
    (called' = "applyCropping" /\ resultCanvas' # resultCanvas)
        => LET cropped == cropImagesAligned(canvasL, canvasR, pointsL[1], pointsR[1],
                                            options.assumeEqualZoom, "cropImagesAligned")
           IN  resultCanvas' = mergeSideBySide(cropped.left, cropped.right, "mergeSideBySide")

\* C24: no pipeline operation changes srcL or srcR, which change only by an
\* upload or by resetAll, and no result the pipeline computes depends on them:
\* with another source pair in their place the result stored is the same.
C24_SourcesUnread ==
    [][ /\ SourcesFramed
        /\ CropResultFromWorkingPair
        /\ (called' = "startProcessing" /\ resultCanvas' # resultCanvas)
             => \A other \in Loadable :
                  merged(other, other, canvasL, canvasR) = resultCanvas' ]_vars

\* C24, amended: no pipeline operation changes srcL or srcR, which change only
\* by an upload or by resetAll; the result of applyCropping is computed from
\* the working pair, and the result startProcessing stores under
\* assumeEqualFraming is computed from srcL and srcR and from nothing else.
C24_SourcesKept ==
    [][ /\ SourcesFramed
        /\ CropResultFromWorkingPair
        /\ (called' = "startProcessing" /\ resultCanvas' # resultCanvas)
             => /\ resultCanvas' = mergeSideBySide(srcL, srcR, "mergeSideBySide")
                /\ \A other \in Loadable :
                     merged(srcL, srcR, other, other) = resultCanvas' ]_vars

\* a result that startProcessing computed from two different sources, kept
C24_Witness ==
    /\ called = "startProcessing" /\ step = "RESULT"
    /\ ~IsNull(resultCanvas)
    /\ ~IsNull(srcL) /\ ~IsNull(srcR)
    /\ srcL.width # srcR.width

----------------------------------------------------------------------------
(* Properties of the stages *)

\* C26: in every reachable state the result canvas is present if and only if
\* the stage is RESULT.
C26_ResultIffResultStage ==
    ~IsNull(resultCanvas) <=> step = "RESULT"

\* the result of a crop, shown in RESULT
C26_Witness ==
    /\ step = "RESULT" /\ called = "applyCropping"
    /\ ~IsNull(resultCanvas) /\ resultCanvas.width > 0

\* the position of a stage in UPLOAD < ROTATE < SCALE < CROP < RESULT
StageOrder(s) ==
    CASE s = "UPLOAD" -> 0 [] s = "ROTATE" -> 1 [] s = "SCALE" -> 2
      [] s = "CROP" -> 3 [] s = "RESULT" -> 4

\* C27: every operation other than resetAll leaves the stage unchanged or
\* moves it strictly forward in UPLOAD < ROTATE < SCALE < CROP < RESULT; only
\* resetAll moves the stage backward, and always to UPLOAD.
C27_StageMonotone ==
    [][ /\ called' # "resetAll" => StageOrder(step') >= StageOrder(step)
        /\ StageOrder(step') < StageOrder(step)
             => called' = "resetAll" /\ step' = "UPLOAD" ]_vars

\* a rotation applied that moved the stage forward past SCALE
C27_Witness ==
    /\ called = "applyRotation" /\ step = "CROP"
    /\ options.assumeEqualZoom

\* C28: the stage is never ROTATE while assumeEqualTilt, never SCALE while
\* assumeEqualZoom and never ROTATE, SCALE or CROP while assumeEqualFraming.
C28_SkippedStagesNeverEntered ==
    /\ options.assumeEqualTilt => step # "ROTATE"
    /\ options.assumeEqualZoom => step # "SCALE"
    /\ options.assumeEqualFraming => step \notin {"ROTATE", "SCALE", "CROP"}

\* a run started in SCALE, ROTATE being declared unnecessary
C28_Witness ==
    /\ called = "startProcessing" /\ step = "SCALE"
    /\ options.assumeEqualTilt /\ ~options.assumeEqualZoom

----------------------------------------------------------------------------
(* Properties of the crop rectangle *)

\* the rectangle of w x h pixels at the origin o.a, o.b lies inside image
RectInside(o, w, h, image) ==
    /\ o.a >= 0 /\ o.a + w <= image.width
    /\ o.b >= 0 /\ o.b + h <= image.height

\* C29: for every pair of images and every anchor within the bounds of its
\* own image, cropImagesAligned computes a finalWidth and a finalHeight that
\* are not negative and, for each side, the source rectangle of that size at
\* (floor(anchor.x - cropLeft), floor(anchor.y - cropTop)) lies inside that
\* side's source image.
C29_CropRectInside ==
    [][ (called' = "cropImagesAligned"
            /\ InBounds(pointsL[1], canvasL) /\ InBounds(pointsR[1], canvasR))
        => LET pL == pointsL[1]
               pR == pointsR[1]
               left == FloorDiv(Min(pL.x, pR.x), Unit)
               top == FloorDiv(Min(pL.y, pR.y), Unit)
               originL == Last(canvasL'.px)
               originR == Last(canvasR'.px)
           IN  /\ canvasL'.width >= 0 /\ canvasL'.height >= 0
               /\ canvasR'.width >= 0 /\ canvasR'.height >= 0
               /\ originL.op = "crop" /\ originR.op = "crop"
               /\ originL.a = FloorDiv(pL.x - left * Unit, Unit)
               /\ originL.b = FloorDiv(pL.y - top * Unit, Unit)
               /\ originR.a = FloorDiv(pR.x - left * Unit, Unit)
               /\ originR.b = FloorDiv(pR.y - top * Unit, Unit)
               /\ RectInside(originL, canvasL'.width, canvasL'.height, canvasL)
               /\ RectInside(originR, canvasR'.width, canvasR'.height, canvasR) ]_vars

\* a crop of one pixel's width cut out of the left image past its first
\* column, the left anchor lying between two pixel columns
C29_Witness ==
    /\ called = "cropImagesAligned"
    /\ pointsL[1].x % Unit # 0
    /\ Last(canvasL.px).op = "crop" /\ Last(canvasL.px).a >= 1
    /\ canvasL.width >= 1 /\ canvasL.height >= 1

----------------------------------------------------------------------------
(* Properties of a run under an operator who keeps supplying points *)

PipelineStages == {"ROTATE", "SCALE", "CROP"}

\* the points the stage's apply requires are held
Supplied ==
    \/ step = "ROTATE" /\ Len(pointsL) >= 2 /\ Len(pointsR) >= 2
    \/ /\ step = "SCALE" /\ Len(pointsL) >= 2 /\ Len(pointsR) >= 2
       /\ pointsL[1].y # pointsL[2].y /\ pointsR[1].y # pointsR[2].y
    \/ step = "CROP" /\ Len(pointsL) >= 1 /\ Len(pointsR) >= 1

\* clicks on the image shown can supply what the stage's apply requires
CanSupplyOn(image) ==
    /\ ~IsNull(image)
    /\ \E p1 \in ClickPoints, p2 \in ClickPoints :
         /\ InBounds(p1, image) /\ InBounds(p2, image)
         /\ step = "SCALE" => p1.y # p2.y

\* C30: every run that leaves UPLOAD reaches RESULT, unless it is reset, when
\* the operator supplies the required in-bounds points (with non-zero vertical
\* distances in SCALE) again and again and invokes apply: an apply invoked on
\* these points moves the stage, forward and from a pipeline stage, so that at
\* most three applies lead to RESULT; and RESULT stays reachable: in every
\* pipeline stage the required points can be supplied by clicks on the two
\* images shown.
C30_ReachesResult ==
    /\ []<>(step \notin PipelineStages \/ Supplied)
         => ((step \in PipelineStages) ~> (step \in {"RESULT", "UPLOAD"}))
    /\ [][ /\ (called' \in {"applyRotation", "applyScaling", "applyCropping"} /\ Supplied)
               => step' # step
           /\ (called' \in {"applyRotation", "applyScaling", "applyCropping"} /\ step' # step)
               => /\ StageOrder(step) >= 1
                  /\ StageOrder(step') > StageOrder(step) ]_vars
    /\ [](step \in PipelineStages => CanSupplyOn(canvasL) /\ CanSupplyOn(canvasR))

====
